---- MODULE Spec2Model ----
(***************************************************************************)
(* A model of app/main.py: the ClickUp ingestion walk                      *)
(* (fetch_clickup_tasks), the JSON record store (save_to_json,             *)
(* load_from_json) and the two HTTP triggers (ingest, query_knowledge).    *)
(*                                                                         *)
(* Text is a sequence of one-character strings.  A Python / JSON value is  *)
(* a record [t, s, nt, ns]:                                                *)
(*   t  = "absent" (the key is missing), "none", "str", "dict" or "list";  *)
(*   s  = the characters of a str, or the items of a list;                 *)
(*   nt = for a dict, what its nested field holds: "absent", "none" or     *)
(*        "str"; ns = the characters of that nested str.                   *)
(***************************************************************************)
EXTENDS Integers, Sequences, FiniteSets, TLC

VARIABLES
    remote,       \* the hierarchy the ClickUp API serves (spaces > folders > lists > tasks)
    exists,       \* whether clickup_data.json exists
    file,         \* the content of clickup_data.json, a sequence of tokens
    ipc,          \* where the ingest request is
    spaces, si,   \* fetch_clickup_tasks: the spaces response and the loop index in it
    folders, fi,  \* the folders response of the current space and the loop index
    lists, li,    \* the lists response of the current folder and the loop index
    documents,    \* fetch_clickup_tasks: the accumulator
    wbuf,         \* save_to_json: the encoded text not yet written
    ires,         \* the response of the last ingest request
    qpc,          \* where the query request is
    req,          \* the query text of the request
    qbuf,         \* load_from_json: what f.read() has read so far
    tasks,        \* query_knowledge: what load_from_json returned
    qres,         \* the response of the last query request
    messages,     \* the messages of the ollama.chat call of the query
    llmCalls,     \* history: the ollama.chat calls of the query
    selected,     \* history: the indices of the tasks the query selected
    fetched,      \* history: the endpoints requested in this ingest, in order
    saveCalls,    \* history: the save_to_json calls of this ingest
    failKind,     \* history: where the last ingest failed
    atStart,      \* history: the document when the ingest started
    lastOk,       \* history: the records of the last acknowledged ingest
    fstate,       \* history: how much of a document the file holds
    fdocs,        \* history: the records whose encoding the file holds when complete
    dirty,        \* history: a write failed after the last acknowledged ingest
    qsnap,        \* history: the document state when load_from_json opened the file
    qclean,       \* history: nothing wrote to the file since the load opened it
    qgens,        \* history: the record sequences the file held whole during the load
    qtorn         \* history: the file was truncated between two reads of the load

walkVars == <<spaces, si, folders, fi, lists, li, documents>>
fileVars == <<exists, file, fstate, fdocs>>
ingestHist == <<fetched, saveCalls, failKind, atStart, lastOk, dirty>>
ingestVars == <<ipc, walkVars, wbuf, ires, ingestHist>>
queryVars == <<qpc, req, qbuf, tasks, qres, messages, llmCalls, selected>>
loadHist == <<qsnap, qclean, qgens, qtorn>>
vars == <<remote, fileVars, ingestVars, queryVars, loadHist>>

-----------------------------------------------------------------------------
(* Bounds *)

MaxFan == 2      \* children per node of the generated hierarchies
MaxTasks == 2    \* tasks per list in the query hierarchies
MaxLen == 2      \* characters of a query text or a title

-----------------------------------------------------------------------------
(* Values *)

Range(s) == {s[i] : i \in 1..Len(s)}

Val(t, s, nt, ns) == [t |-> t, s |-> s, nt |-> nt, ns |-> ns]
Absent == Val("absent", <<>>, "absent", <<>>)
None == Val("none", <<>>, "absent", <<>>)
Str(s) == Val("str", s, "absent", <<>>)
Dict(nt, ns) == Val("dict", <<>>, nt, ns)
List(s) == Val("list", s, "absent", <<>>)
EmptyDict == Dict("absent", <<>>)

Unknown == <<"U", "n", "k", "n", "o", "w", "n">>
NotSet == <<"N", "o", "t", " ", "s", "e", "t">>
NoneText == <<"N", "o", "n", "e">>

\* dict.get(key, default) on a task of the API
Get(task, key, default) == IF task[key].t = "absent" THEN default ELSE task[key]

\* v.get(<nested field>, default) on a dict v
DictGet(v, default) ==
    IF v.nt = "absent" THEN default
    ELSE IF v.nt = "none" THEN None ELSE Str(v.ns)

IsDict(v) == v.t = "dict"

\* task.get('status', {}).get(...) raises AttributeError on a value that is no
\* dict; task['id'] raises KeyError on a task without id.
NormalizeRaises(task) ==
    \/ ~IsDict(Get(task, "status", EmptyDict))
    \/ task["id"].t = "absent"

WrongDefaultTask(task, list_name, folder_name, space_name) ==
    [title |-> Get(task, "name", Str(<<>>)),
     description |-> Get(task, "description", Str(<<>>)),
     status |-> DictGet(Get(task, "status", EmptyDict), Str(Unknown)),
     priority |-> IF IsDict(Get(task, "priority", EmptyDict))
                  THEN DictGet(Get(task, "priority", EmptyDict), Str(NoneText))
                  ELSE Str(NoneText),
     due_date |-> Get(task, "due_date", Str(NoneText)),
     created_date |-> Get(task, "date_created", Str(NoneText)),
     assigned_to |-> Get(task, "assignees", List(<<>>)),
     task_id |-> task["id"],
     list_name |-> Str(list_name),
     folder_name |-> Str(folder_name),
     space_name |-> Str(space_name),
     url |-> Get(task, "url", Str(<<>>))]

SwappedNamesTask(task, list_name, folder_name, space_name) ==
    [title |-> Get(task, "name", Str(<<>>)),
     description |-> Get(task, "description", Str(<<>>)),
     status |-> DictGet(Get(task, "status", EmptyDict), Str(Unknown)),
     priority |-> IF IsDict(Get(task, "priority", EmptyDict))
                  THEN DictGet(Get(task, "priority", EmptyDict), Str(NotSet))
                  ELSE Str(NotSet),
     due_date |-> Get(task, "due_date", Str(NoneText)),
     created_date |-> Get(task, "date_created", Str(NoneText)),
     assigned_to |-> Get(task, "assignees", List(<<>>)),
     task_id |-> task["id"],
     list_name |-> Str(folder_name),
     folder_name |-> Str(list_name),
     space_name |-> Str(space_name),
     url |-> Get(task, "url", Str(<<>>))]

\* The task_data literal of fetch_clickup_tasks
NormalizeTask(task, list_name, folder_name, space_name) ==
    [title |-> Get(task, "name", Str(<<>>)),
     description |-> Get(task, "description", Str(<<>>)),
     status |-> DictGet(Get(task, "status", EmptyDict), Str(Unknown)),
     priority |-> IF IsDict(Get(task, "priority", EmptyDict))
                  THEN DictGet(Get(task, "priority", EmptyDict), Str(NotSet))
                  ELSE Str(NotSet),
     due_date |-> Get(task, "due_date", Str(NoneText)),
     created_date |-> Get(task, "date_created", Str(NoneText)),
     assigned_to |-> Get(task, "assignees", List(<<>>)),
     task_id |-> task["id"],
     list_name |-> Str(list_name),
     folder_name |-> Str(folder_name),
     space_name |-> Str(space_name),
     url |-> Get(task, "url", Str(<<>>))]

\* The loop over the tasks of one list: the records appended, in order
NormalizeList(ts, list_name, folder_name, space_name) ==
    [i \in 1..Len(ts) |-> NormalizeTask(ts[i], list_name, folder_name, space_name)]

-----------------------------------------------------------------------------
(* The remote hierarchy and _make_request *)

TeamId == <<"3", "3", "4", "2", "1", "0", "1">>

Endpoint(kind, id) == [kind |-> kind, id |-> id]

AllFolders(tree) == UNION {Range(s.folders) : s \in Range(tree)}
AllLists(tree) == UNION {Range(f.lists) : f \in AllFolders(tree)}

IdName(nodes) == [i \in 1..Len(nodes) |-> [id |-> nodes[i].id, name |-> nodes[i].name]]

\* Whether the API can answer the request: the resource exists
Served(tree, e) ==
    CASE e.kind = "team" -> TRUE
      [] e.kind = "space" -> \E s \in Range(tree) : s.id = e.id
      [] e.kind = "folder" -> \E f \in AllFolders(tree) : f.id = e.id
      [] e.kind = "list" -> \E l \in AllLists(tree) : l.id = e.id

\* response.json() of a successful request: the collection under its key
Response(tree, e) ==
    CASE e.kind = "team" -> IdName(tree)
      [] e.kind = "space" -> IdName((CHOOSE s \in Range(tree) : s.id = e.id).folders)
      [] e.kind = "folder" -> IdName((CHOOSE f \in AllFolders(tree) : f.id = e.id).lists)
      [] e.kind = "list" -> (CHOOSE l \in AllLists(tree) : l.id = e.id).tasks

-----------------------------------------------------------------------------
(* The document: json.dump({"tasks": documents}) and json.load *)

Fields == {"title", "description", "status", "priority", "due_date", "created_date",
           "assigned_to", "task_id", "list_name", "folder_name", "space_name", "url"}

\* Python value -> JSON text of the value, and back (None <-> null)
EncodeValue(v) == IF v.t = "none" THEN [v EXCEPT !.t = "null"] ELSE v
NullAsTextValue(j) == IF j.t = "null" THEN Str(NoneText) ELSE j
DecodeValue(j) == IF j.t = "null" THEN [j EXCEPT !.t = "none"] ELSE j

\* A piece of the text: the head {"tasks": [ , one object, a comma, the tail ]}
Tok(k, r) == [k |-> k, r |-> r]
Punct(k) == Tok(k, [f \in Fields |-> Absent])

EncodeRecord(d) == Tok("object", [f \in Fields |-> EncodeValue(d[f])])

DecodeRecord(m) == [f \in Fields |-> DecodeValue(m[f])]

RECURSIVE EncodeItems(_)
EncodeItems(docs) ==
    IF docs = <<>> THEN <<>>
    ELSE IF Len(docs) = 1 THEN <<EncodeRecord(docs[1])>>
    ELSE <<EncodeRecord(docs[1]), Punct(",")>> \o EncodeItems(Tail(docs))

\* The text json.dump writes for {"tasks": docs}
Encode(docs) == <<Punct("head")>> \o EncodeItems(docs) \o <<Punct("tail")>>

ParseError == [ok |-> FALSE, tasks |-> <<>>]

\* The items of the array from piece i on, then the tail and the end of the text
RECURSIVE ParseItems(_, _, _)
ParseItems(toks, i, acc) ==
    IF i + 1 > Len(toks) THEN ParseError
    ELSE IF toks[i].k # "object" THEN ParseError
    ELSE LET acc2 == Append(acc, DecodeRecord(toks[i].r))
         IN IF toks[i + 1].k = ","
            THEN ParseItems(toks, i + 2, acc2)
            ELSE IF toks[i + 1].k = "tail" /\ Len(toks) = i + 1
                 THEN [ok |-> TRUE, tasks |-> acc2]
                 ELSE ParseError

\* As ParseItems, but a text that breaks off yields the items read so far
RECURSIVE LenientItems(_, _, _)
LenientItems(toks, i, acc) ==
    IF i > Len(toks) THEN [ok |-> TRUE, tasks |-> acc]
    ELSE IF toks[i].k # "object" THEN [ok |-> TRUE, tasks |-> acc]
    ELSE LenientItems(toks, i + 2, Append(acc, DecodeRecord(toks[i].r)))

LenientParse(toks) == LenientItems(toks, 2, <<>>)

\* json.load(f) of the text read, then data.get("tasks", [])
ParseTasks(toks) ==
    IF Len(toks) < 2 THEN ParseError
    ELSE IF toks[1].k # "head" THEN ParseError
    ELSE IF toks[2].k = "tail"
         THEN IF Len(toks) = 2 THEN [ok |-> TRUE, tasks |-> <<>>] ELSE ParseError
         ELSE ParseItems(toks, 2, <<>>)

\* load_from_json on an existing file whose read gave toks: except -> []
LoadResult(toks) == IF ParseTasks(toks).ok THEN ParseTasks(toks).tasks ELSE <<>>

KeepContent(content) == content
\* open(JSON_FILE_PATH, 'w') truncates the file
Truncate(content) == <<>>

-----------------------------------------------------------------------------
(* GET /ingest: fetch_clickup_tasks, then save_to_json *)

ServerError == 500

NoResponse == [kind |-> "none", status |-> 0]
Acknowledged == [kind |-> "ack", status |-> 200]
ErrorResponse == [kind |-> "error", status |-> ServerError]

FetchLevels == {"spaces", "folders", "lists", "tasks"}

\* The endpoint the walk requests next
CurrentEndpoint ==
    CASE ipc = "spaces" -> Endpoint("team", TeamId)
      [] ipc = "folders" -> Endpoint("space", spaces[si].id)
      [] ipc = "lists" -> Endpoint("folder", folders[fi].id)
      [] ipc = "tasks" -> Endpoint("list", lists[li].id)

Pos(pc, s, f, l) == [pc |-> pc, si |-> s, fi |-> f, li |-> l]

\* Where the nested for loops go on: the next space, folder or list, or the return
AfterSpace(s, nsp) ==
    IF s < nsp THEN Pos("folders", s + 1, 0, 0) ELSE Pos("save", 0, 0, 0)
AfterFolder(s, f, nsp, nfo) ==
    IF f < nfo THEN Pos("lists", s, f + 1, 0) ELSE AfterSpace(s, nsp)
AfterList(s, f, l, nsp, nfo, nli) ==
    IF l < nli THEN Pos("tasks", s, f, l + 1) ELSE AfterFolder(s, f, nsp, nfo)

GoTo(p) == ipc' = p.pc /\ si' = p.si /\ fi' = p.fi /\ li' = p.li

\* An exception reaches ingest's except clause: HTTPException(status_code=500)
IngestFails(kind) ==
    /\ ipc' = "done"
    /\ ires' = ErrorResponse
    /\ failKind' = kind
    /\ spaces' = <<>> /\ si' = 0
    /\ folders' = <<>> /\ fi' = 0
    /\ lists' = <<>> /\ li' = 0
    /\ documents' = <<>>
    /\ wbuf' = <<>>

WalkRaisesSaving(kind) ==
    /\ IngestFails(kind)
    /\ exists' = TRUE
    /\ file' = Encode(documents)
    /\ fstate' = "complete"
    /\ fdocs' = documents
    /\ saveCalls' = saveCalls + 1

\* fetch_clickup_tasks logs and re-raises: save_to_json is not reached
WalkRaises(kind) ==
    /\ IngestFails(kind)
    /\ UNCHANGED <<fileVars, saveCalls>>

IngestStart ==
    /\ ipc = "idle"
    /\ ipc' = "spaces"
    /\ atStart' = [exists |-> exists, file |-> file]
    /\ UNCHANGED <<remote, fileVars, walkVars, wbuf, ires, fetched, saveCalls, failKind,
                   lastOk, dirty, queryVars, loadHist>>

\* _make_request raises at any of the four levels
FetchFails ==
    /\ ipc \in FetchLevels
    /\ fetched' = Append(fetched, CurrentEndpoint)
    /\ WalkRaises(ipc)
    /\ UNCHANGED <<remote, atStart, lastOk, dirty, queryVars, loadHist>>

FetchSpaces ==
    /\ ipc = "spaces"
    /\ Served(remote, CurrentEndpoint)
    /\ fetched' = Append(fetched, CurrentEndpoint)
    /\ LET r == Response(remote, CurrentEndpoint)
       IN /\ spaces' = r
          /\ GoTo(AfterSpace(0, Len(r)))
    /\ UNCHANGED <<remote, fileVars, folders, lists, documents, wbuf, ires, saveCalls,
                   failKind, atStart, lastOk, dirty, queryVars, loadHist>>

FetchFolders ==
    /\ ipc = "folders"
    /\ Served(remote, CurrentEndpoint)
    /\ fetched' = Append(fetched, CurrentEndpoint)
    /\ LET r == Response(remote, CurrentEndpoint)
       IN /\ folders' = r
          /\ GoTo(AfterFolder(si, 0, Len(spaces), Len(r)))
    /\ UNCHANGED <<remote, fileVars, spaces, lists, documents, wbuf, ires, saveCalls,
                   failKind, atStart, lastOk, dirty, queryVars, loadHist>>

FetchLists ==
    /\ ipc = "lists"
    /\ Served(remote, CurrentEndpoint)
    /\ fetched' = Append(fetched, CurrentEndpoint)
    /\ LET r == Response(remote, CurrentEndpoint)
       IN /\ lists' = r
          /\ GoTo(AfterList(si, fi, 0, Len(spaces), Len(folders), Len(r)))
    /\ UNCHANGED <<remote, fileVars, spaces, folders, documents, wbuf, ires, saveCalls,
                   failKind, atStart, lastOk, dirty, queryVars, loadHist>>

\* The tasks of one list, each normalized and appended; a task that cannot be
\* normalized raises out of the walk.
FetchTasks ==
    /\ ipc = "tasks"
    /\ Served(remote, CurrentEndpoint)
    /\ fetched' = Append(fetched, CurrentEndpoint)
    /\ LET r == Response(remote, CurrentEndpoint)
       IN IF \E i \in 1..Len(r) : NormalizeRaises(r[i])
          THEN WalkRaises("normalize")
          ELSE /\ documents' = documents \o
                     NormalizeList(r, lists[li].name, folders[fi].name, spaces[si].name)
               /\ GoTo(AfterList(si, fi, li, Len(spaces), Len(folders), Len(lists)))
               /\ UNCHANGED <<fileVars, spaces, folders, lists, wbuf, ires, saveCalls,
                              failKind>>
    /\ UNCHANGED <<remote, atStart, lastOk, dirty, queryVars, loadHist>>

\* save_to_json: open(JSON_FILE_PATH, 'w') creates or truncates the file
SaveOpen ==
    /\ ipc = "save"
    /\ ipc' = "write"
    /\ saveCalls' = saveCalls + 1
    /\ exists' = TRUE
    /\ file' = Truncate(file)
    /\ fstate' = "partial"
    /\ fdocs' = <<>>
    /\ wbuf' = Encode(documents)
    /\ spaces' = <<>> /\ folders' = <<>> /\ lists' = <<>>
    /\ qclean' = (qclean /\ qpc # "read")
    /\ qtorn' = (qtorn \/ (qpc = "read" /\ qbuf # <<>> /\ file # <<>>))
    /\ UNCHANGED <<remote, si, fi, li, documents, ires, fetched, failKind, atStart,
                   lastOk, dirty, queryVars, qsnap, qgens>>

\* open raises (the file cannot be opened for writing): nothing is written
SaveOpenFails ==
    /\ ipc = "save"
    /\ saveCalls' = saveCalls + 1
    /\ IngestFails("open")
    /\ UNCHANGED <<remote, fileVars, fetched, atStart, lastOk, dirty,
                   queryVars, loadHist>>

\* The next piece of the text reaches the file
SaveWrite ==
    /\ ipc = "write"
    /\ wbuf # <<>>
    /\ \E n \in 1..Len(wbuf) :
          /\ file' = file \o SubSeq(wbuf, 1, n)
          /\ wbuf' = SubSeq(wbuf, n + 1, Len(wbuf))
          /\ fstate' = IF n = Len(wbuf) THEN "complete" ELSE "partial"
          /\ fdocs' = IF n = Len(wbuf) THEN documents ELSE <<>>
          /\ qgens' = IF qpc = "read" /\ n = Len(wbuf)
                      THEN qgens \cup {documents} ELSE qgens
    /\ qclean' = (qclean /\ qpc # "read")
    /\ UNCHANGED <<remote, exists, ipc, walkVars, ires, ingestHist, queryVars, qsnap,
                   qtorn>>

\* A write, or the flush of close, raises: the file keeps what reached it
SaveWriteFails ==
    /\ ipc = "write"
    /\ IngestFails("write")
    /\ dirty' = TRUE
    /\ UNCHANGED <<remote, fileVars, fetched, saveCalls, atStart, lastOk, queryVars,
                   loadHist>>

\* The file is closed and ingest returns its message
SaveClose ==
    /\ ipc = "write"
    /\ wbuf = <<>>
    /\ ipc' = "done"
    /\ ires' = Acknowledged
    /\ lastOk' = [any |-> TRUE, docs |-> documents]
    /\ dirty' = FALSE
    /\ documents' = <<>>
    /\ si' = 0 /\ fi' = 0 /\ li' = 0
    /\ UNCHANGED <<remote, fileVars, spaces, folders, lists, wbuf, fetched, saveCalls,
                   failKind, atStart, queryVars, loadHist>>

\* The response is sent and the request ends
IngestReturn ==
    /\ ipc = "done"
    /\ ipc' = "idle"
    /\ ires' = NoResponse
    /\ fetched' = <<>>
    /\ saveCalls' = 0
    /\ failKind' = "none"
    /\ atStart' = [exists |-> FALSE, file |-> <<>>]
    /\ UNCHANGED <<remote, fileVars, walkVars, wbuf, lastOk, dirty,
                   queryVars, loadHist>>

IngestSteps ==
    \/ FetchSpaces
    \/ FetchFolders
    \/ FetchLists
    \/ FetchTasks
    \/ FetchFails
    \/ SaveOpen
    \/ SaveOpenFails
    \/ SaveWrite
    \/ SaveWriteFails
    \/ SaveClose
    \/ IngestReturn

Ingest == IngestStart \/ IngestSteps

-----------------------------------------------------------------------------
(* POST /query: load_from_json, the substring filter, ollama.chat *)

UpperLetters == <<"A", "B", "C", "D", "E", "F", "G", "H", "I", "J", "K", "L", "M",
                  "N", "O", "P", "Q", "R", "S", "T", "U", "V", "W", "X", "Y", "Z">>
LowerLetters == <<"a", "b", "c", "d", "e", "f", "g", "h", "i", "j", "k", "l", "m",
                  "n", "o", "p", "q", "r", "s", "t", "u", "v", "w", "x", "y", "z">>

LowerChar(c) ==
    IF \E i \in 1..Len(UpperLetters) : UpperLetters[i] = c
    THEN LowerLetters[CHOOSE i \in 1..Len(UpperLetters) : UpperLetters[i] = c]
    ELSE c

\* str.lower()
LowerText(s) == [i \in 1..Len(s) |-> LowerChar(s[i])]

\* needle in hay, for two str
In(needle, hay) ==
    \E i \in 0..(Len(hay) - Len(needle)) : SubSeq(hay, i + 1, i + Len(needle)) = needle

\* bool(v): None, "", [] are false; a dict of the API holds keys
Truthy(v) ==
    CASE v.t = "absent" -> FALSE
      [] v.t = "none" -> FALSE
      [] v.t = "str" -> v.s # <<>>
      [] v.t = "list" -> v.s # <<>>
      [] v.t = "dict" -> TRUE

\* v or default
Or(v, default) == IF Truthy(v) THEN v ELSE default

TitleOf(task) == Or(Get(task, "title", Str(<<>>)), Str(<<>>))
DescriptionOf(task) == Or(Get(task, "description", Str(<<>>)), Str(<<>>))

CaseSensitiveMatches(query, task) ==
    \/ In(query, TitleOf(task).s)
    \/ In(query, DescriptionOf(task).s)

\* query in title.lower() or query in description.lower()
Matches(query, task) ==
    \/ In(query, LowerText(TitleOf(task).s))
    \/ In(query, LowerText(DescriptionOf(task).s))

\* .lower() raises AttributeError on a title or description that is no str;
\* the description is looked at only when the title does not match.
FilterRaises(query, task) ==
    \/ TitleOf(task).t # "str"
    \/ /\ ~In(query, LowerText(TitleOf(task).s))
       /\ DescriptionOf(task).t # "str"

RenderedFields == {"title", "description", "status", "priority", "due_date",
                   "created_date", "assigned_to"}

\* task["title"] ... raise KeyError on a record without the key
RenderRaises(task) == \E f \in RenderedFields : task[f].t = "absent"

RECURSIVE Join(_, _)
\* sep.join(parts)
Join(sep, parts) ==
    IF parts = <<>> THEN <<>>
    ELSE IF Len(parts) = 1 THEN parts[1]
    ELSE LET h == Len(parts) \div 2
         IN Join(sep, SubSeq(parts, 1, h)) \o sep
                \o Join(sep, SubSeq(parts, h + 1, Len(parts)))

\* str(v) inside an f-string
Text(v) ==
    CASE v.t = "str" -> v.s
      [] v.t = "list" -> <<"[">> \o Join(<<",", " ">>, [i \in 1..Len(v.s) |-> <<v.s[i]>>])
                            \o <<"]">>
      [] v.t = "dict" -> <<"{", ".", ".", ".", "}">>
      [] OTHER -> NoneText

IndentWidth == 12
Indent == [i \in 1..IndentWidth |-> " "]

NoTitle == <<"N", "o", " ", "t", "i", "t", "l", "e">>
NoDescription == <<"N", "o", " ", "d", "e", "s", "c", "r", "i", "p", "t", "i", "o", "n">>

BlockLine(label, v, placeholder) ==
    Indent \o label \o Text(Or(v, Str(placeholder))) \o <<"\n">>

\* The f-string of query_knowledge for one task
Block(task) ==
    <<"\n">>
    \o BlockLine(<<"T", "i", "t", "l", "e", ":", " ">>, task["title"], NoTitle)
    \o BlockLine(<<"D", "e", "s", "c", "r", "i", "p", "t", "i", "o", "n", ":", " ">>,
                 task["description"], NoDescription)
    \o BlockLine(<<"S", "t", "a", "t", "u", "s", ":", " ">>, task["status"], Unknown)
    \o BlockLine(<<"P", "r", "i", "o", "r", "i", "t", "y", ":", " ">>,
                 task["priority"], NotSet)
    \o BlockLine(<<"D", "u", "e", " ", "D", "a", "t", "e", ":", " ">>,
                 task["due_date"], NoneText)
    \o BlockLine(<<"C", "r", "e", "a", "t", "e", "d", " ", "D", "a", "t", "e", ":", " ">>,
                 task["created_date"], NoneText)
    \o BlockLine(<<"A", "s", "s", "i", "g", "n", "e", "d", " ", "T", "o", ":", " ">>,
                 task["assigned_to"], NoneText)
    \o Indent

\* The characters of a str, as join iterates over them
Characters(s) == [i \in 1..Len(s) |-> <<s[i]>>]

\* formatted_tasks = "\n\n".join(relevant_texts); the user content is
\* "\n".join(formatted_tasks), a join over the characters of that str.
UserContent(relevant_texts) ==
    Join(<<"\n">>, Characters(Join(<<"\n", "\n">>, relevant_texts)))

SystemPrompt ==
    <<"You are an AI assistant that retrieves tasks assigned to a user from ClickUp data.">>

ChatMessages(relevant_texts) ==
    <<[role |-> "system", content |-> SystemPrompt],
      [role |-> "user", content |-> UserContent(relevant_texts)]>>

NoMatchResponse == "No matching tasks found."

NeverEmpty(relevant_texts) == FALSE
\* if not relevant_texts
NothingRelevant(relevant_texts) == relevant_texts = <<>>

QueryStart(q) ==
    /\ qpc = "idle"
    /\ qpc' = "load"
    /\ req' = q
    /\ UNCHANGED <<remote, fileVars, ingestVars, qbuf, tasks, qres, messages, llmCalls,
                   selected, loadHist>>

\* load_from_json: no file gives []; else the file is opened for reading
LoadOpen ==
    /\ qpc = "load"
    /\ IF exists
       THEN /\ qpc' = "read"
            /\ UNCHANGED tasks
       ELSE /\ qpc' = "filter"
            /\ tasks' = <<>>
    /\ qsnap' = [state |-> fstate, docs |-> fdocs]
    /\ qclean' = TRUE
    /\ qtorn' = FALSE
    /\ qgens' = IF fstate = "complete" THEN {fdocs} ELSE {}
    /\ UNCHANGED <<remote, fileVars, ingestVars, req, qbuf, qres, messages, llmCalls,
                   selected>>

\* f.read(): one read of the file from where the last one ended
LoadRead ==
    /\ qpc = "read"
    /\ Len(qbuf) < Len(file)
    /\ \E n \in 1..(Len(file) - Len(qbuf)) :
          qbuf' = qbuf \o SubSeq(file, Len(qbuf) + 1, Len(qbuf) + n)
    /\ UNCHANGED <<remote, fileVars, ingestVars, qpc, req, tasks, qres, messages,
                   llmCalls, selected, loadHist>>

\* A read finds the end of the file: the text is parsed and the tasks returned
LoadEnd ==
    /\ qpc = "read"
    /\ Len(qbuf) >= Len(file)
    /\ tasks' = LoadResult(qbuf)
    /\ qbuf' = <<>>
    /\ qpc' = "filter"
    /\ UNCHANGED <<remote, fileVars, ingestVars, req, qres, messages, llmCalls,
                   selected, loadHist>>

\* The filter loop, then the fixed response or the call of the language model
Answer ==
    /\ qpc = "filter"
    /\ qpc' = "done"
    /\ LET query == LowerText(req)
           hits == {i \in 1..Len(tasks) : Matches(query, tasks[i])}
           relevant_texts ==
               LET m == SelectSeq(tasks, LAMBDA t : Matches(query, t))
               IN [i \in 1..Len(m) |-> Block(m[i])]
       IN IF \E i \in 1..Len(tasks) :
                \/ FilterRaises(query, tasks[i])
                \/ Matches(query, tasks[i]) /\ RenderRaises(tasks[i])
          THEN /\ qres' = "error"
               /\ UNCHANGED <<messages, llmCalls, selected>>
          ELSE /\ selected' = hits
               /\ IF NothingRelevant(relevant_texts)
                  THEN /\ qres' = NoMatchResponse
                       /\ UNCHANGED <<messages, llmCalls>>
                  ELSE /\ llmCalls' = llmCalls + 1
                       /\ messages' = ChatMessages(relevant_texts)
                       /\ qres' = "llm"
    /\ UNCHANGED <<remote, fileVars, ingestVars, req, qbuf, tasks, loadHist>>

\* The response is sent and the request ends
QueryReturn ==
    /\ qpc = "done"
    /\ qpc' = "idle"
    /\ req' = <<>> /\ tasks' = <<>>
    /\ qres' = "none" /\ messages' = <<>> /\ llmCalls' = 0 /\ selected' = {}
    /\ qsnap' = [state |-> "absent", docs |-> <<>>]
    /\ qclean' = TRUE /\ qgens' = {} /\ qtorn' = FALSE
    /\ UNCHANGED <<remote, fileVars, ingestVars, qbuf>>

-----------------------------------------------------------------------------
(* The hierarchies the remote serves *)

Digit(i) == <<"0", "1", "2", "3", "4", "5", "6", "7", "8", "9">>[i + 1]

Node(id, name) == [id |-> id, name |-> name]

Task(id, name, description, status, priority, due, assignees) ==
    [id |-> id, name |-> name, description |-> description, status |-> status,
     priority |-> priority, due_date |-> due, date_created |-> due,
     assignees |-> assignees, url |-> due]

Open == <<"o", "p", "e", "n">>
High == <<"h", "i", "g", "h">>

PlainTask(id) ==
    Task(Str(id), Str(<<"T">> \o id), None, Dict("str", Open), None, Absent, List(<<>>))

\* Generated hierarchies: MaxFan spaces; the number of children of the other
\* nodes varies with the node's place and the seed, from none to MaxFan.
Kids(seed, place) == (seed + place) % (MaxFan + 1)

GenTasks(seed, i, j, k) ==
    [l \in 1..Kids(seed, i + j + k) |->
        PlainTask(<<"t", Digit(i), Digit(j), Digit(k), Digit(l)>>)]

GenLists(seed, i, j) ==
    [k \in 1..Kids(seed + 1, i + j) |->
        [id |-> <<"l", Digit(i), Digit(j), Digit(k)>>,
         name |-> <<"L", Digit(i), Digit(j), Digit(k)>>,
         tasks |-> GenTasks(seed, i, j, k)]]

GenFolders(seed, i) ==
    [j \in 1..Kids(seed + 2, i) |->
        [id |-> <<"f", Digit(i), Digit(j)>>,
         name |-> <<"F", Digit(i), Digit(j)>>,
         lists |-> GenLists(seed, i, j)]]

GenTree(seed) ==
    [i \in 1..MaxFan |->
        [id |-> <<"s", Digit(i)>>,
         name |-> <<"S", Digit(i)>>,
         folders |-> GenFolders(seed, i)]]

WalkTrees == {GenTree(seed) : seed \in 0..MaxFan}

\* One space, one folder, one list holding the given tasks
OneList(ts) ==
    <<[id |-> <<"s", "1">>, name |-> <<"E", "n", "g">>,
       folders |-> <<[id |-> <<"f", "1">>, name |-> <<"B", "a", "c", "k">>,
                      lists |-> <<[id |-> <<"l", "1">>,
                                   name |-> <<"S", "p", "r", "1">>,
                                   tasks |-> ts]>>]>>]>>

\* The shapes a field of a task can have
StatusShapes ==
    {Absent, None, Str(Open), Dict("absent", <<>>), Dict("none", <<>>), Dict("str", Open)}
PriorityShapes ==
    {Absent, None, Str(High), Dict("absent", <<>>), Dict("none", <<>>), Dict("str", High)}
OtherShapes ==
    {Absent, None, Str(<<"x">>), Dict("absent", <<>>), Dict("str", <<"x">>)}
IdShapes == {Str(<<"t", "1">>), Absent}

ShapedTasks ==
    {Task(id, name, other, status, priority, other, other) :
        id \in IdShapes, name \in OtherShapes, other \in OtherShapes,
        status \in StatusShapes, priority \in PriorityShapes}

ShapedTrees == {OneList(<<t>>) : t \in ShapedTasks}

-----------------------------------------------------------------------------
(* The initial state: no document, no request under way *)

InitWith(trees) ==
    /\ remote \in trees
    /\ exists = FALSE /\ file = <<>> /\ fstate = "absent" /\ fdocs = <<>>
    /\ ipc = "idle"
    /\ spaces = <<>> /\ si = 0
    /\ folders = <<>> /\ fi = 0
    /\ lists = <<>> /\ li = 0
    /\ documents = <<>>
    /\ wbuf = <<>>
    /\ ires = NoResponse
    /\ fetched = <<>> /\ saveCalls = 0 /\ failKind = "none"
    /\ atStart = [exists |-> FALSE, file |-> <<>>]
    /\ lastOk = [any |-> FALSE, docs |-> <<>>]
    /\ dirty = FALSE
    /\ qpc = "idle" /\ req = <<>> /\ qbuf = <<>> /\ tasks = <<>>
    /\ qres = "none" /\ messages = <<>> /\ llmCalls = 0 /\ selected = {}
    /\ qsnap = [state |-> "absent", docs |-> <<>>]
    /\ qclean = TRUE /\ qgens = {} /\ qtorn = FALSE

\* fetch_clickup_tasks alone, on generated hierarchies and on every task shape
InitWalk == InitWith(WalkTrees \cup ShapedTrees)

Walk ==
    \/ IngestStart
    \/ FetchSpaces
    \/ FetchFolders
    \/ FetchLists
    \/ FetchTasks
    \/ FetchFails

SpecWalk == InitWalk /\ [][Walk]_vars

\* Ingests and queries, one request at a time, on lists of tasks whose titles
\* and descriptions differ in case, in place and in being there at all.
QueryPool ==
    {Task(Str(<<"q", "1">>), Str(<<"A", "b">>), None, Dict("str", Open), None, Absent,
          List(<<"u1", "u2">>)),
     Task(Str(<<"q", "2">>), None, Str(<<"b", "A">>), Dict("absent", <<>>), Str(High),
          None, List(<<>>)),
     Task(Str(<<"q", "3">>), Absent, Absent, Absent, Absent, Str(<<"7">>), Absent)}

SeqsUpTo(S, n) == UNION {[1..k -> S] : k \in 0..n}

QueryTrees == {OneList(ts) : ts \in SeqsUpTo(QueryPool, MaxTasks)}
QueryTexts == SeqsUpTo({"a", "B"}, MaxLen)

InitQuery == InitWith(QueryTrees)

QuerySteps ==
    \/ LoadOpen
    \/ LoadRead
    \/ LoadEnd
    \/ Answer
    \/ QueryReturn

\* A request is taken up when the other trigger is not being served
OneAtATime(texts) ==
    \/ qpc = "idle" /\ IngestStart
    \/ IngestSteps
    \/ \E q \in texts : ipc = "idle" /\ QueryStart(q)
    \/ QuerySteps

NextQuery == OneAtATime(QueryTexts)

SpecQuery == InitQuery /\ [][NextQuery]_vars

\* One request at a time, on lists of none to MaxTasks tasks and on a
\* generated hierarchy, which the remote changes between ingests.
StoreTree(g, n) == OneList([l \in 1..n |-> PlainTask(<<g, Digit(l)>>)])

StoreTrees ==
    {StoreTree(g, n) : g \in {"a", "b"}, n \in 0..MaxTasks} \cup {GenTree(1)}
StoreTexts == {<<"t">>}

\* The remote hierarchy changes (between two walks)
RemoteChange(trees) ==
    /\ ipc = "idle"
    /\ remote' \in trees \ {remote}
    /\ UNCHANGED <<fileVars, ingestVars, queryVars, loadHist>>

Init == InitWith(StoreTrees)

Next ==
    \/ OneAtATime(StoreTexts)
    \/ RemoteChange(StoreTrees)

Spec == Init /\ [][Next]_vars

\* An ingest and a query side by side (the endpoints are plain def functions,
\* which FastAPI runs on worker threads), on two lists of two tasks each.
RaceTrees ==
    {OneList(<<PlainTask(<<"a", "1">>), PlainTask(<<"a", "2">>)>>),
     OneList(<<PlainTask(<<"b", "1">>), PlainTask(<<"b", "2">>)>>)}

InitRace == InitWith(RaceTrees)

NextRace ==
    \/ Ingest
    \/ \E q \in StoreTexts : QueryStart(q)
    \/ QuerySteps
    \/ RemoteChange(RaceTrees)

SpecRace == InitRace /\ [][NextRace]_vars

-----------------------------------------------------------------------------
(* What the walk is to return: the hierarchy flattened depth first *)

RECURSIVE Concat(_)
Concat(ss) == IF ss = <<>> THEN <<>> ELSE Head(ss) \o Concat(Tail(ss))

\* Every task of the hierarchy with the names of its list, folder and space
FlatTasks(tree) ==
    Concat([i \in 1..Len(tree) |->
      Concat([j \in 1..Len(tree[i].folders) |->
        Concat([k \in 1..Len(tree[i].folders[j].lists) |->
          [l \in 1..Len(tree[i].folders[j].lists[k].tasks) |->
             [task |-> tree[i].folders[j].lists[k].tasks[l],
              list |-> tree[i].folders[j].lists[k].name,
              folder |-> tree[i].folders[j].name,
              space |-> tree[i].name]]])])])

\* The requests of a whole walk: the team, then each space followed by its
\* folders, each folder followed by its lists
FlatFetches(tree) ==
    <<Endpoint("team", TeamId)>> \o
    Concat([i \in 1..Len(tree) |->
      <<Endpoint("space", tree[i].id)>> \o
      Concat([j \in 1..Len(tree[i].folders) |->
        <<Endpoint("folder", tree[i].folders[j].id)>> \o
        [k \in 1..Len(tree[i].folders[j].lists) |->
           Endpoint("list", tree[i].folders[j].lists[k].id)]])])

WalkReturned == ipc = "save"

\* C9: a walk that returns has requested the team, every space, every folder and
\* every list once each in depth-first order, and returns one record per task
\* in that order, each with the names of the list, folder and space it is in.
C9_DepthFirstFlattening ==
    WalkReturned =>
        /\ fetched = FlatFetches(remote)
        /\ Len(documents) = Len(FlatTasks(remote))
        /\ \A n \in 1..Len(documents) :
              /\ documents[n].task_id = FlatTasks(remote)[n].task.id
              /\ documents[n].list_name = Str(FlatTasks(remote)[n].list)
              /\ documents[n].folder_name = Str(FlatTasks(remote)[n].folder)
              /\ documents[n].space_name = Str(FlatTasks(remote)[n].space)

\* A walk returned records of two spaces and two of one list, having passed a
\* list without tasks.
C9_Witness ==
    /\ WalkReturned
    /\ \E m, n \in 1..Len(documents) :
          /\ m < n
          /\ documents[m].space_name # documents[n].space_name
    /\ \E m \in 1..Len(documents) :
          /\ m < Len(documents)
          /\ documents[m].list_name = documents[m + 1].list_name
    /\ \E l \in AllLists(remote) : l.tasks = <<>>

AllTasks(tree) == UNION {Range(l.tasks) : l \in AllLists(tree)}

\* C4: normalization raises for no task that carries an id, whatever the shape
\* of its other fields: the walk is aborted by a task only if a task has no id.
C4_NormalizationNeverRaises ==
    failKind = "normalize" => \E t \in AllTasks(remote) : t.id.t = "absent"

-----------------------------------------------------------------------------
(* The record store *)

\* What load_from_json returns on the document as it is
LoadNow == IF exists THEN LoadResult(file) ELSE <<>>

LastAcknowledged == IF lastOk.any THEN lastOk.docs ELSE <<>>

\* C1: when a fetch fails, at whichever of the four levels, the walk returns no
\* records, ingest answers with status 500, save_to_json has not been called
\* and the document is what it was when the ingest started.
C1_FetchFailureLeavesStore ==
    ipc = "done" /\ failKind \in FetchLevels =>
        /\ ires.kind = "error"
        /\ ires.status = 500
        /\ documents = <<>>
        /\ saveCalls = 0
        /\ exists = atStart.exists
        /\ file = atStart.file

\* The fetch of the tasks of a list, not the first list of the walk, failed in
\* an ingest that started with a document holding records.
C1_Witness ==
    /\ ipc = "done"
    /\ failKind = "tasks"
    /\ Len(fetched) > 4
    /\ atStart.exists
    /\ LoadResult(atStart.file) # <<>>
    /\ file = atStart.file

\* C2 as stated: whenever no ingest is being served, load_from_json returns the
\* records of the last acknowledged ingest, or nothing if there was none.
C2_LastAcknowledgedGeneration ==
    ipc \in {"idle", "done"} => LoadNow = LastAcknowledged

\* C2 amended: while no ingest is writing, load_from_json returns the records
\* of the last acknowledged ingest if no ingest has failed in writing since;
\* after such a failure it returns nothing or the whole output of one ingest;
\* an ingest that fails before it opens the file leaves the document as it was.
C2_WholeGenerations ==
    ipc # "write" =>
        /\ ~dirty => LoadNow = LastAcknowledged
        /\ dirty => LoadNow = <<>> \/ (fstate = "complete" /\ LoadNow = fdocs)
        /\ ipc = "done" /\ failKind \in FetchLevels \cup {"normalize", "open"}
              => exists = atStart.exists /\ file = atStart.file

\* After an acknowledged ingest of records, an ingest failed in writing and
\* load_from_json returns nothing.
C2_Witness ==
    /\ ipc = "done"
    /\ failKind = "write"
    /\ dirty
    /\ lastOk.any /\ lastOk.docs # <<>>
    /\ LoadNow = <<>>

\* C3: load_from_json returns the records save_to_json wrote, in their order,
\* when the file holds a whole document, and the empty sequence when there is
\* no file or the text breaks off.
C3_LoadRoundTrip ==
    qpc = "filter" /\ qclean =>
        tasks = IF qsnap.state = "complete" THEN qsnap.docs ELSE <<>>

\* A load returned two records, null fields among them, from a whole document.
C3_Witness ==
    /\ qpc = "filter"
    /\ qsnap.state = "complete"
    /\ Len(tasks) >= 2
    /\ tasks[1].description = None
    /\ tasks[1] # tasks[2]
    /\ tasks = qsnap.docs

\* C10 as stated: a load beside a writing ingest returns nothing or a record
\* sequence the file held whole at some time during the load.
C10_LoadSeesOneGeneration ==
    qpc = "filter" => tasks = <<>> \/ tasks \in qgens

\* C10 amended: the same, for a load during which the file was not truncated
\* between two of its reads.
C10_UntornLoad ==
    qpc = "filter" /\ ~qtorn => tasks = <<>> \/ tasks \in qgens

\* A load that began on one whole document returned the records an ingest
\* wrote during it.
C10_Witness ==
    /\ qpc = "filter"
    /\ ~qtorn
    /\ ~qclean
    /\ qsnap.state = "complete"
    /\ tasks # <<>>
    /\ tasks # qsnap.docs
    /\ tasks \in qgens

-----------------------------------------------------------------------------
(* The query *)

\* The text of a title or description, a null or missing one being empty
TextOrEmpty(v) == IF v.t = "str" THEN v.s ELSE <<>>

IsSubstring(n, h) ==
    \E a \in 0..Len(h) : \E b \in a..Len(h) : SubSeq(h, a + 1, b) = n

ShouldSelect(q, task) ==
    \/ IsSubstring(LowerText(q), LowerText(TextOrEmpty(task["title"])))
    \/ IsSubstring(LowerText(q), LowerText(TextOrEmpty(task["description"])))

\* C6: the query selects a record exactly when the lowercased query text is a
\* substring of its lowercased title or of its lowercased description, a null
\* or missing one counting as empty.
C6_SubstringMatch ==
    qpc = "done" /\ qres # "error" =>
        \A i \in 1..Len(tasks) : i \in selected <=> ShouldSelect(req, tasks[i])

\* A query with a capital letter selected a record with a null title by its
\* description and passed over another record.
C6_Witness ==
    /\ qpc = "done"
    /\ req # LowerText(req)
    /\ \E i \in selected : tasks[i].title = None
    /\ \E j \in 1..Len(tasks) : j \notin selected

\* C7: a query that matches no stored record, as every query on a missing,
\* broken-off or empty document, answers "No matching tasks found." without a
\* call of the language model; a query that matches makes exactly one call.
C7_NoMatchNoModel ==
    qpc = "done" /\ qres # "error" =>
        /\ (\A i \in 1..Len(tasks) : ~ShouldSelect(req, tasks[i]))
              => qres = NoMatchResponse /\ llmCalls = 0 /\ messages = <<>>
        /\ (\E i \in 1..Len(tasks) : ShouldSelect(req, tasks[i]))
              => qres = "llm" /\ llmCalls = 1
        /\ qsnap.state # "complete" \/ qsnap.docs = <<>>
              => qres = NoMatchResponse /\ llmCalls = 0

\* A query on stored records that matched none of them got the fixed response.
C7_Witness ==
    /\ qpc = "done"
    /\ tasks # <<>>
    /\ qres = NoMatchResponse
    /\ llmCalls = 0

SelectedBlocks ==
    LET m == SelectSeq(tasks, LAMBDA t : ShouldSelect(req, t))
    IN [i \in 1..Len(m) |-> Block(m[i])]

\* C8: the language model gets two messages, the system instruction and a user
\* turn whose content is the blocks of the matching records, in store order,
\* one after the other (a blank line between two) with nothing put inside a
\* block.
C8_UserTurnIsConcatenation ==
    qpc = "done" /\ qres = "llm" =>
        /\ Len(messages) = 2
        /\ messages[1] = [role |-> "system", content |-> SystemPrompt]
        /\ messages[2].role = "user"
        /\ messages[2].content = Join(<<"\n", "\n">>, SelectedBlocks)

====
